---- MODULE Spec2Model ----
(***************************************************************************)
(* SpeedW (src/App.tsx): a speed-warning display.  A location watch        *)
(* delivers samples; each sample is converted to km/h, smoothed by a       *)
(* scalar Kalman filter, calibrated, rounded, published, and compared with *)
(* the selected speed limit; an audio warning is played at most once per   *)
(* cool-down interval.                                                     *)
(*                                                                         *)
(* JavaScript numbers are modelled as exact rationals extended with NaN,   *)
(* +Infinity, -Infinity and undefined, with the IEEE-754 rules for the     *)
(* non-finite values.  Rounding error of finite doubles is not modelled.   *)
(*                                                                         *)
(* The 'Test Sound' and 'Toggle Debug' tiles (l.350-363) change none of    *)
(* the state below and are left out.  An exception raised by the success   *)
(* callback ends that call only: the watch stays registered.               *)
(***************************************************************************)
EXTENDS Integers, Sequences, FiniteSets, TLC

VARIABLES
    mounted,            \* the App component is mounted
    permissionRequest,  \* "pending" | "resolved": PermissionsAndroid.request
    permissionsGranted, \* useState(false), l.74
    watchId,            \* useRef<number|null>, l.76 (NoWatch = null)
    watching,           \* the Geolocation watch holds the success callback
    pending,            \* native location events emitted, not yet dispatched
    emitted,            \* number of native location events emitted so far
    soundRef,           \* "loaded" | "released": the Sound object, l.75
    speedLimit,         \* useState(INITIAL_SPEED), l.72
    speedLimitRef,      \* useRef(INITIAL_SPEED), l.73
    lastSpeedWarning,   \* useRef(0), l.77 (ms)
    kalmanFilter,       \* <<>> or <<state>>: the closure of l.88
    speedData,          \* useState<SpeedData>, l.79
    debug,              \* useState(''), l.70: the two computed fields of it
    clock,              \* Date.now() (ms, wall clock)
    nSamples,           \* history: success callbacks run
    alerts,             \* history: playWarningSound calls made by the callback
    threw,              \* history: the last success callback raised
    fed,                \* history: last measurement passed to the filter
    run,                \* history: length of the current run of equal measurements
    stopRequested,      \* history: cleanupResources ran on a started watch
    dropped             \* history: an event was dispatched to no listener

vars == <<mounted, permissionRequest, permissionsGranted, watchId, watching,
          pending, emitted, soundRef, speedLimit, speedLimitRef,
          lastSpeedWarning, kalmanFilter, speedData, debug, clock, nSamples,
          alerts, threw, fed, run, stopRequested, dropped>>

(***************************************************************************)
(* Bounds of the model.                                                    *)
(***************************************************************************)
MaxSamples == 3     \* location events emitted in one behaviour of Spec
MaxPending == 1     \* events queued between the native side and JS
MaxSteps == 4       \* filter updates in one behaviour of FilterSpec
NumTiles == 1       \* the first NumTiles tiles of SPEED_LIMITS are pressed

(***************************************************************************)
(* Program constants.                                                      *)
(***************************************************************************)
SPEED_LIMITS == <<20, 40, 50, 60, 70, 80, 90, 100, 120>>
CALIBRATION == 1
WARNING_INTERVAL == 5000
NoWatch == -1

(***************************************************************************)
(* JavaScript numbers.                                                     *)
(***************************************************************************)
RECURSIVE GCD(_, _)
GCD(a, b) == IF b = 0 THEN a ELSE GCD(b, a % b)

Abs(i) == IF i < 0 THEN -i ELSE i

Fin(n, d) ==
    LET g == GCD(Abs(n), d)
    IN  [k |-> "fin", n |-> n \div g, d |-> d \div g]

NaN == [k |-> "nan", n |-> 0, d |-> 1]
PInf == [k |-> "pinf", n |-> 0, d |-> 1]
NInf == [k |-> "ninf", n |-> 0, d |-> 1]
Undef == [k |-> "undef", n |-> 0, d |-> 1]
Zero == Fin(0, 1)
One == Fin(1, 1)

IsFin(v) == v.k = "fin"

\* sign of a value that is not NaN
Sgn(v) ==
    CASE v.k = "pinf" -> 1
      [] v.k = "ninf" -> -1
      [] OTHER -> IF v.n > 0 THEN 1 ELSE IF v.n < 0 THEN -1 ELSE 0

Inf(s) == IF s > 0 THEN PInf ELSE NInf

Neg(v) ==
    CASE v.k = "fin" -> Fin(-v.n, v.d)
      [] v.k = "pinf" -> NInf
      [] v.k = "ninf" -> PInf
      [] OTHER -> NaN

Add(a, b) ==
    CASE a.k \in {"nan", "undef"} \/ b.k \in {"nan", "undef"} -> NaN
      [] IsFin(a) /\ IsFin(b) ->
            LET g == GCD(a.d, b.d)
            IN  Fin(a.n * (b.d \div g) + b.n * (a.d \div g), (a.d \div g) * b.d)
      [] IsFin(a) -> b
      [] IsFin(b) -> a
      [] OTHER -> IF a.k = b.k THEN a ELSE NaN

Sub(a, b) == Add(a, Neg(b))

Mul(a, b) ==
    CASE a.k \in {"nan", "undef"} \/ b.k \in {"nan", "undef"} -> NaN
      [] IsFin(a) /\ IsFin(b) ->
            LET g == GCD(Abs(a.n), b.d)
                h == GCD(Abs(b.n), a.d)
            IN  Fin((a.n \div g) * (b.n \div h), (a.d \div h) * (b.d \div g))
      [] OTHER -> IF Sgn(a) * Sgn(b) = 0 THEN NaN ELSE Inf(Sgn(a) * Sgn(b))

Div(a, b) ==
    CASE a.k \in {"nan", "undef"} \/ b.k \in {"nan", "undef"} -> NaN
      [] IsFin(a) /\ IsFin(b) ->
            IF b.n # 0
            THEN LET g == GCD(Abs(a.n), Abs(b.n))
                     h == GCD(a.d, b.d)
                 IN  Fin(Sgn(b) * (a.n \div g) * (b.d \div h),
                         (a.d \div h) * (Abs(b.n) \div g))
            ELSE IF a.n = 0 THEN NaN ELSE Inf(Sgn(a))
      [] IsFin(a) -> Zero
      [] IsFin(b) -> Inf(Sgn(a) * (IF Sgn(b) < 0 THEN -1 ELSE 1))
      [] OTHER -> NaN

\* a < b; every comparison with NaN is false
Less(a, b) ==
    CASE a.k \in {"nan", "undef"} \/ b.k \in {"nan", "undef"} -> FALSE
      [] IsFin(a) /\ IsFin(b) ->
            LET g == GCD(a.d, b.d)
            IN  a.n * (b.d \div g) < b.n * (a.d \div g)
      [] a.k = b.k -> FALSE
      [] OTHER -> a.k = "ninf" \/ b.k = "pinf"

\* a >= b
GE(a, b) ==
    /\ a.k \notin {"nan", "undef"}
    /\ b.k \notin {"nan", "undef"}
    /\ ~Less(a, b)

\* Math.max(a, b)
MathMax(a, b) ==
    IF a.k \in {"nan", "undef"} \/ b.k \in {"nan", "undef"} THEN NaN
    ELSE IF Less(a, b) THEN b ELSE a

\* v ?? dflt
Nullish(v, dflt) == IF v.k = "undef" THEN dflt ELSE v

\* parseFloat(v.toFixed(1)): the nearest tenth, a tie going away from zero
ToFixed1(v) ==
    IF IsFin(v)
    THEN Fin(Sgn(v) * ((20 * Abs(v.n) + v.d) \div (2 * v.d)), 10)
    ELSE IF v.k = "undef" THEN NaN ELSE v

(***************************************************************************)
(* createKalmanFilter, l.42-62.                                            *)
(***************************************************************************)
createKalmanFilter ==
    [R |-> Fin(1, 10), Q |-> Fin(1, 10), P |-> One, X |-> Zero, K |-> Zero]

\* a slip: the covariance update of l.58 is left out
KalmanUpdate_NoCovarianceUpdate(state, measurement) ==
    LET P1 == Add(state.P, state.Q)
        K1 == Div(P1, Add(P1, state.R))
        X1 == Add(state.X, Mul(K1, Sub(measurement, state.X)))
    IN  [state EXCEPT !.P = P1, !.X = X1, !.K = K1]

\* a slip: the gain of l.56 is divided by R alone
KalmanUpdate_GainOverR(state, measurement) ==
    LET P1 == Add(state.P, state.Q)
        K1 == Div(P1, state.R)
        X1 == Add(state.X, Mul(K1, Sub(measurement, state.X)))
        P2 == Mul(Sub(One, K1), P1)
    IN  [state EXCEPT !.P = P2, !.X = X1, !.K = K1]

\* the closure returned by createKalmanFilter, l.51-61
KalmanUpdate(state, measurement) ==
    LET P1 == Add(state.P, state.Q)
        K1 == Div(P1, Add(P1, state.R))
        X1 == Add(state.X, Mul(K1, Sub(measurement, state.X)))
        P2 == Mul(Sub(One, K1), P1)
    IN  [state EXCEPT !.P = P2, !.X = X1, !.K = K1]

\* l.65-67
convertToKmh(speedInMs) == MathMax(Zero, Mul(speedInMs, Fin(36, 10)))

INITIAL_SPEED == SPEED_LIMITS[4]

\* a slip: the comparison of l.113 is turned round
OverLimit_Inverted(currentSpeed, limit) == GE(limit, currentSpeed)

\* l.113: currentSpeed >= speedLimitRef.current
OverLimit(currentSpeed, limit) == GE(currentSpeed, limit)

\* a slip: the cool-down test of l.116 is left out
CooldownElapsed_Always(now, last) == TRUE

\* l.116: now - lastSpeedWarning.current > 5000
CooldownElapsed(now, last) == now - last > WARNING_INTERVAL

(***************************************************************************)
(* Inputs.                                                                 *)
(***************************************************************************)
\* location.coords.speed, m/s: missing, NaN, Infinity, negative, 5.75, 30
RawSpeeds == {Undef, NaN, PInf, Fin(-1, 1), Fin(23, 4), Fin(30, 1)}
\* <<location.coords.accuracy (m), location.timestamp (ms)>>: a complete
\* sample, one without accuracy, one without timestamp
SampleFields ==
    {<<Fin(5, 1), Fin(10000, 1)>>, <<Undef, Fin(10000, 1)>>, <<Fin(5, 1), Undef>>}
\* readings of Date.now(), ms
ClockReadings == {10000, 11000, 15000, 15001}
\* measurements of the filter taken alone, km/h
Measurements == {Zero, Fin(207, 10), Fin(36, 1), Fin(108, 1)}

(***************************************************************************)
(* Initial state: the component is mounted, the mount effect (l.160-166)   *)
(* has requested the permission and loaded the sound.                      *)
(***************************************************************************)
Init ==
    /\ mounted = TRUE
    /\ permissionRequest = "pending"
    /\ permissionsGranted = FALSE
    /\ watchId = NoWatch
    /\ watching = FALSE
    /\ pending = 0
    /\ emitted = 0
    /\ soundRef = "loaded"
    /\ speedLimit = Fin(INITIAL_SPEED, 1)
    /\ speedLimitRef = Fin(INITIAL_SPEED, 1)
    /\ lastSpeedWarning = 0
    /\ kalmanFilter = <<>>
    /\ clock = 10000
    /\ speedData = [currentSpeed |-> Zero, accuracy |-> Zero,
                    timestamp |-> Fin(10000, 1)]
    /\ debug = [rawSpeed |-> Undef, filteredSpeed |-> Undef]
    /\ nSamples = 0
    /\ alerts = 0
    /\ threw = FALSE
    /\ fed = Undef
    /\ run = 0
    /\ stopRequested = FALSE
    /\ dropped = FALSE

(***************************************************************************)
(* startLocationTracking, l.86-158: a new filter, a new watch.             *)
(***************************************************************************)
startLocationTracking ==
    /\ kalmanFilter' = <<createKalmanFilter>>
    /\ watchId' = 0
    /\ watching' = TRUE

\* setupPermissions, l.168-205, and the effect of l.256-259
ResolvePermission(granted) ==
    /\ permissionRequest = "pending"
    /\ permissionRequest' = "resolved"
    /\ IF granted /\ mounted
       THEN /\ permissionsGranted' = TRUE
            /\ startLocationTracking
       ELSE UNCHANGED <<permissionsGranted, kalmanFilter, watchId, watching>>
    /\ UNCHANGED <<mounted, pending, emitted, soundRef, speedLimit,
                   speedLimitRef, lastSpeedWarning, speedData, debug, clock,
                   nSamples, alerts, threw, fed, run, stopRequested, dropped>>

\* a slip: the watch is not cleared
cleanupWatch_NoClear ==
    /\ stopRequested' = (stopRequested \/ watchId # NoWatch)
    /\ UNCHANGED <<watching, kalmanFilter>>

\* cleanupResources, l.235-237: Geolocation.clearWatch drops the callback, and
\* with it the only reference to the filter closure
cleanupWatch ==
    /\ stopRequested' = (stopRequested \/ watchId # NoWatch)
    /\ IF watchId # NoWatch
       THEN /\ watching' = FALSE
            /\ kalmanFilter' = <<>>
       ELSE UNCHANGED <<watching, kalmanFilter>>

\* a speed-limit tile, l.311-314
PressLimit(i) ==
    /\ mounted
    /\ speedLimit' = Fin(SPEED_LIMITS[i], 1)
    /\ speedLimitRef' = Fin(SPEED_LIMITS[i], 1)
    /\ UNCHANGED <<mounted, permissionRequest, permissionsGranted, watchId,
                   watching, pending, emitted, soundRef, lastSpeedWarning,
                   kalmanFilter, speedData, debug, clock, nSamples, alerts,
                   threw, fed, run, stopRequested, dropped>>

\* the OFF tile, l.330-336: cleanupResources, then loadWarningSound
PressOff ==
    /\ mounted
    /\ speedLimit' = PInf
    /\ speedLimitRef' = PInf
    /\ cleanupWatch
    /\ soundRef' = "loaded"
    /\ UNCHANGED <<mounted, permissionRequest, permissionsGranted, watchId,
                   pending, emitted, lastSpeedWarning, speedData, debug, clock,
                   nSamples, alerts, threw, fed, run, dropped>>

\* the cleanup of the mount effect, l.163-165
Unmount ==
    /\ mounted
    /\ mounted' = FALSE
    /\ cleanupWatch
    /\ soundRef' = "released"
    /\ UNCHANGED <<permissionRequest, permissionsGranted, watchId, pending,
                   emitted, speedLimit, speedLimitRef, lastSpeedWarning,
                   speedData, debug, clock, nSamples, alerts, threw, fed, run,
                   dropped>>

\* the wall clock takes another reading
Tick ==
    /\ \E t \in ClockReadings \ {clock} : clock' = t
    /\ UNCHANGED <<mounted, permissionRequest, permissionsGranted, watchId,
                   watching, pending, emitted, soundRef, speedLimit,
                   speedLimitRef, lastSpeedWarning, kalmanFilter, speedData,
                   debug, nSamples, alerts, threw, fed, run, stopRequested,
                   dropped>>

\* the native side of the watch emits a location event
SensorEmit ==
    /\ watching
    /\ pending < MaxPending
    /\ emitted < MaxSamples
    /\ pending' = pending + 1
    /\ emitted' = emitted + 1
    /\ UNCHANGED <<mounted, permissionRequest, permissionsGranted, watchId,
                   watching, soundRef, speedLimit, speedLimitRef,
                   lastSpeedWarning, kalmanFilter, speedData, debug, clock,
                   nSamples, alerts, threw, fed, run, stopRequested, dropped>>

(***************************************************************************)
(* The success callback of watchPosition, l.92-121.                        *)
(***************************************************************************)
SuccessCallback(speed, accuracy, timestamp) ==
    LET rawSpeed == Nullish(speed, Zero)
        speedInKmh == convertToKmh(rawSpeed)
        state == KalmanUpdate(kalmanFilter[1], speedInKmh)
        filteredSpeed == Add(state.X, Fin(CALIBRATION, 1))
        currentSpeed == ToFixed1(filteredSpeed)
    IN  /\ kalmanFilter' = <<state>>
        /\ fed' = speedInKmh
        /\ run' = IF speedInKmh = fed THEN run + 1 ELSE 1
        /\ nSamples' = nSamples + 1
        /\ speedData' = [currentSpeed |-> currentSpeed,
                         accuracy |-> Nullish(accuracy, Zero),
                         timestamp |-> timestamp]
        /\ IF timestamp.k # "fin"
           THEN \* l.109: new Date(undefined).toISOString() throws RangeError
                /\ threw' = TRUE
                /\ UNCHANGED <<debug, alerts, lastSpeedWarning>>
           ELSE /\ threw' = FALSE
                /\ debug' = [rawSpeed |-> speedInKmh,
                             filteredSpeed |-> filteredSpeed]
                /\ IF /\ OverLimit(currentSpeed, speedLimitRef)
                      /\ CooldownElapsed(clock, lastSpeedWarning)
                   THEN /\ alerts' = alerts + 1
                        /\ lastSpeedWarning' = clock
                   ELSE UNCHANGED <<alerts, lastSpeedWarning>>

\* a queued event reaches the registered callback
DeliverSample ==
    /\ pending > 0
    /\ watching
    /\ pending' = pending - 1
    /\ \E speed \in RawSpeeds, fields \in SampleFields :
          SuccessCallback(speed, fields[1], fields[2])
    /\ UNCHANGED <<mounted, permissionRequest, permissionsGranted, watchId,
                   watching, emitted, soundRef, speedLimit, speedLimitRef,
                   clock, stopRequested, dropped>>

\* a queued event finds the watch cleared: no listener, nothing runs
DropSample ==
    /\ pending > 0
    /\ ~watching
    /\ pending' = pending - 1
    /\ dropped' = TRUE
    /\ UNCHANGED <<mounted, permissionRequest, permissionsGranted, watchId,
                   watching, emitted, soundRef, speedLimit, speedLimitRef,
                   lastSpeedWarning, kalmanFilter, speedData, debug, clock,
                   nSamples, alerts, threw, fed, run, stopRequested>>

Next ==
    \/ \E granted \in BOOLEAN : ResolvePermission(granted)
    \/ \E i \in 1..NumTiles : PressLimit(i)
    \/ PressOff
    \/ Unmount
    \/ Tick
    \/ SensorEmit
    \/ DeliverSample
    \/ DropSample

Spec == Init /\ [][Next]_vars

(***************************************************************************)
(* The filter taken alone: one instance, fed any sequence of finite        *)
(* non-negative measurements, as the samples arrive at the watch.          *)
(***************************************************************************)
FilterInit ==
    /\ mounted = TRUE
    /\ permissionRequest = "resolved"
    /\ permissionsGranted = TRUE
    /\ watchId = 0
    /\ watching = TRUE
    /\ pending = 0
    /\ emitted = 0
    /\ soundRef = "loaded"
    /\ speedLimit = Fin(INITIAL_SPEED, 1)
    /\ speedLimitRef = Fin(INITIAL_SPEED, 1)
    /\ lastSpeedWarning = 0
    /\ kalmanFilter = <<createKalmanFilter>>
    /\ clock = 10000
    /\ speedData = [currentSpeed |-> Zero, accuracy |-> Zero,
                    timestamp |-> Fin(10000, 1)]
    /\ debug = [rawSpeed |-> Undef, filteredSpeed |-> Undef]
    /\ nSamples = 0
    /\ alerts = 0
    /\ threw = FALSE
    /\ fed = Undef
    /\ run = 0
    /\ stopRequested = FALSE
    /\ dropped = FALSE

FilterFeed ==
    /\ nSamples < MaxSteps
    /\ \E m \in Measurements :
          /\ kalmanFilter' = <<KalmanUpdate(kalmanFilter[1], m)>>
          /\ fed' = m
          /\ run' = IF m = fed THEN run + 1 ELSE 1
    /\ nSamples' = nSamples + 1
    /\ UNCHANGED <<mounted, permissionRequest, permissionsGranted, watchId,
                   watching, pending, emitted, soundRef, speedLimit,
                   speedLimitRef, lastSpeedWarning, speedData, debug, clock,
                   alerts, threw, stopRequested, dropped>>

FilterNext == FilterFeed

FilterSpec == FilterInit /\ [][FilterNext]_vars

(***************************************************************************)
(* Properties.                                                             *)
(***************************************************************************)
\* filteredSpeed of l.95, from the filter state
Filtered(kf) == Add(kf[1].X, Fin(CALIBRATION, 1))

\* the lower bound Q*R/(Q+R) of the covariance after an update
CovarianceFloor ==
    Div(Mul(createKalmanFilter.Q, createKalmanFilter.R),
        Add(createKalmanFilter.Q, createKalmanFilter.R))

\* |a - b|
Dist(a, b) == IF Less(a, b) THEN Sub(b, a) ELSE Sub(a, b)

\* C1: the callback plays the warning at most once per step, and each time it
\* does, it records the clock reading, which lies at least 5000 ms after the
\* previously recorded one (so a sample 1000 ms after an alert plays nothing).
C1_AlertsRateLimited ==
    [][/\ alerts' \in {alerts, alerts + 1}
       /\ alerts' = alerts + 1 =>
            /\ lastSpeedWarning' = clock
            /\ lastSpeedWarning' - lastSpeedWarning >= WARNING_INTERVAL]_vars

\* two alerts have been played
C1_Witness == alerts >= 2

\* C2: while the limit is the OFF sentinel, no step plays the warning.
C2_NoAlertWhileOff ==
    [][speedLimitRef = PInf => alerts' = alerts]_vars

\* C3: a sample whose handler reaches the comparison, whose filtered and
\* calibrated value is finite and at least a finite limit, and which arrives 5000 ms or
\* more after the last recorded alert, plays the warning and records the time.
C3_AlertAtCooldown ==
    [][(/\ nSamples' = nSamples + 1
        /\ ~threw'
        /\ speedLimitRef # PInf
        /\ IsFin(Filtered(kalmanFilter'))
        /\ GE(Filtered(kalmanFilter'), speedLimitRef)
        /\ clock - lastSpeedWarning >= WARNING_INTERVAL)
       => /\ alerts' = alerts + 1
          /\ lastSpeedWarning' = clock]_vars

\* C4 as stated: no warning is played on a sample whose filtered and
\* calibrated value, before rounding, is strictly below the limit.
C4_NoAlertBelowLimit ==
    [][alerts' = alerts + 1
       => ~Less(Filtered(kalmanFilter'), speedLimitRef)]_vars

\* C4 as amended: the comparison is made on the value rounded to one decimal
\* (not zero-floored): a warning is played only on a sample whose rounded
\* value is at least the limit.
C4_NoAlertBelowRoundedLimit ==
    [][alerts' = alerts + 1
       => /\ speedData'.currentSpeed = ToFixed1(Filtered(kalmanFilter'))
          /\ GE(speedData'.currentSpeed, speedLimitRef)]_vars

\* the only sample so far played the warning, its unrounded value below the
\* limit and its rounded value at the limit
C4_Witness ==
    /\ nSamples = 1
    /\ alerts = 1
    /\ watching
    /\ Less(Filtered(kalmanFilter), speedLimitRef)
    /\ GE(speedData.currentSpeed, speedLimitRef)

\* C5: after every update of a filter fed finite non-negative measurements,
\* the covariance P lies in (0, P0 + Q] and the gain K in [0, 1].
C5_CovarianceAndGainBounded ==
    nSamples >= 1 =>
        LET state == kalmanFilter[1]
        IN  /\ Less(Zero, state.P)
            /\ GE(Add(createKalmanFilter.P, createKalmanFilter.Q), state.P)
            /\ GE(state.K, Zero)
            /\ GE(One, state.K)

\* the filter has been updated more than once, last with a positive measurement
C5_Witness == nSamples >= 2 /\ Less(Zero, fed)

\* C6 as stated, for the covariance: fed the same value as often as the model
\* allows, the covariance has come below Q*R/(Q+R), as it must to approach 0.
C6_CovarianceVanishes ==
    (nSamples = MaxSteps /\ run = MaxSteps)
        => Less(kalmanFilter[1].P, CovarianceFloor)

\* C6 as amended: each time the same measurement is fed again, the output moves
\* strictly closer to it (or stays on it) without crossing it, and the
\* covariance decreases but stays above Q*R/(Q+R) = 0.05: it does not approach 0.
C6_ConstantInputConverges ==
    [][(nSamples' = nSamples + 1 /\ run' >= 2)
       => LET x == kalmanFilter[1].X
              y == kalmanFilter'[1].X
          IN  /\ \/ Less(Dist(y, fed'), Dist(x, fed'))
                 \/ (x = fed' /\ y = fed')
              /\ Less(x, fed') => ~Less(fed', y)
              /\ Less(fed', x) => ~Less(y, fed')
              /\ Less(kalmanFilter'[1].P, kalmanFilter[1].P)
              /\ Less(CovarianceFloor, kalmanFilter'[1].P)]_vars

\* the same positive measurement was fed three times, the output still below it
C6_Witness ==
    /\ run >= 3
    /\ Less(Zero, kalmanFilter[1].X)
    /\ Less(kalmanFilter[1].X, fed)

\* C7: the value passed to the filter is finite and non-negative, and the
\* estimate and the published speed are finite.
C7_FilterInputFinite ==
    nSamples >= 1 =>
        /\ IsFin(fed)
        /\ GE(fed, Zero)
        /\ IsFin(speedData.currentSpeed)
        /\ (watching => IsFin(kalmanFilter[1].X))

\* C8: after every sample the handler has completed without raising and the
\* published accuracy and timestamp are numbers (zero for a missing field).
C8_PartialSampleProcessed ==
    nSamples >= 1 =>
        /\ ~threw
        /\ IsFin(speedData.accuracy)
        /\ IsFin(speedData.timestamp)

\* C9: once cleanupResources has run on a started watch, the watch holds no
\* callback and the filter is gone, and no later step changes the filter, the
\* published state, the last-alert time or the number of alerts.
C9_NoMutationAfterStop ==
    /\ [](stopRequested => ~watching /\ kalmanFilter = <<>>)
    /\ [][stopRequested =>
            UNCHANGED <<kalmanFilter, speedData, debug, lastSpeedWarning,
                        alerts, nSamples>>]_vars

\* an event in flight at the time of the stop was dispatched afterwards
C9_Witness == stopRequested /\ dropped /\ nSamples >= 1

\* C10: a step that changes the limit leaves the watch, the filter and the
\* last-alert time as they were.
C10_LimitChangeOnly ==
    [][speedLimitRef' # speedLimitRef
       => UNCHANGED <<watching, kalmanFilter, lastSpeedWarning>>]_vars

====
